---------------------------- MODULE Spec2Model ----------------------------
(***************************************************************************)
(* A model of linguist-termcolor (src/src/lib.rs): the tokenizer, the      *)
(* search index built by Linguist::colors, ColorMap::query, and the        *)
(* nearest-colour search find_nearest_color over the xterm palette.        *)
(*                                                                         *)
(* Text is a sequence of one-character strings, so that slicing, case      *)
(* folding, hex parsing and byte-wise ordering are computed, not assumed.  *)
(* The alphabet is printable ASCII.                                        *)
(***************************************************************************)
EXTENDS Integers, Sequences, FiniteSets, TLC

VARIABLES
    pc,        \* which machine is running and where it is
    raw,       \* the dataset as written: raw key -> LinguistLang
    linguist,  \* Linguist.0: lowercased key -> LinguistLang
    visit,     \* the order in which colors() iterated Linguist.0
    map,       \* ColorMap.0: token -> list of <<name, u32>>
    query,     \* the text last passed to ColorMap::query
    found,     \* what query produced: a BTreeMap as a sorted list
    text,      \* the text passed to tokenize
    words,     \* what tokenize returned
    color,     \* the colour passed to find_nearest_color
    choices,   \* the palette passed to find_nearest_color
    nearest,   \* what find_nearest_color returned (an Option)
    held,      \* min_by: position of the minimum held so far
    cursor     \* min_by: position of the next element to compare

vars == <<pc, raw, linguist, visit, map, query, found,
          text, words, color, choices, nearest, held, cursor>>

-----------------------------------------------------------------------------
(* Bounds of the model.                                                    *)

MaxLen == 3
MaxEntries == 2
MaxPalette == 3

-----------------------------------------------------------------------------
(* Characters.                                                             *)

Ascii ==
    << " ", "!", "\"", "#", "$", "%", "&", "'", "(", ")", "*", "+", ",", "-",
       ".", "/", "0", "1", "2", "3", "4", "5", "6", "7", "8", "9", ":", ";",
       "<", "=", ">", "?", "@", "A", "B", "C", "D", "E", "F", "G", "H", "I",
       "J", "K", "L", "M", "N", "O", "P", "Q", "R", "S", "T", "U", "V", "W",
       "X", "Y", "Z", "[", "\\", "]", "^", "_", "grave", "a", "b", "c", "d", "e",
       "f", "g", "h", "i", "j", "k", "l", "m", "n", "o", "p", "q", "r", "s",
       "t", "u", "v", "w", "x", "y", "z", "{", "|", "}", "~" >>

\* The byte of an ASCII character (" " is 32). The table is positional;
\* "grave" holds the place of byte 96, which no text of the model uses.
Code == [ch \in {Ascii[i] : i \in 1..Len(Ascii)} |->
            31 + (CHOOSE i \in 1..Len(Ascii) : Ascii[i] = ch)]

Chr(n) == Ascii[n - 31]

IsUpper(ch) == Code[ch] \in Code["A"]..Code["Z"]
IsLower(ch) == Code[ch] \in Code["a"]..Code["z"]
IsDigit(ch) == Code[ch] \in Code["0"]..Code["9"]

\* The class with the trailing "-" left out.
IsWordNoHyphen(ch) ==
    IsUpper(ch) \/ IsLower(ch) \/ IsDigit(ch) \/ ch \in {"+", "*", "_", "#"}

\* The character class of RE_MATCH_WORDS: [\pL\pN+*_#-]
IsWordChar(ch) ==
    IsUpper(ch) \/ IsLower(ch) \/ IsDigit(ch) \/ ch \in {"+", "*", "_", "#", "-"}

\* Regex::find_iter for a one-class `+` pattern: leftmost, greedy,
\* non-overlapping matches. cur is the match being extended.
RECURSIVE find_iter(_, _, _)
find_iter(t, i, cur) ==
    LET flush == IF cur = <<>> THEN <<>> ELSE <<cur>> IN
    IF i > Len(t) THEN flush
    ELSE IF IsWordChar(t[i]) THEN find_iter(t, i + 1, Append(cur, t[i]))
    ELSE flush \o find_iter(t, i + 1, <<>>)

tokenize(t) == find_iter(t, 1, <<>>)

\* str::to_ascii_lowercase
LowerChar(ch) == IF IsUpper(ch) THEN Chr(Code[ch] + 32) ELSE ch

to_ascii_lowercase(s) == [i \in 1..Len(s) |-> LowerChar(s[i])]

\* Ord for str: byte-wise lexicographic, a proper prefix first.
RECURSIVE StrLess(_, _)
StrLess(a, b) ==
    IF b = <<>> THEN FALSE
    ELSE IF a = <<>> THEN TRUE
    ELSE IF Code[Head(a)] # Code[Head(b)] THEN Code[Head(a)] < Code[Head(b)]
    ELSE StrLess(Tail(a), Tail(b))

-----------------------------------------------------------------------------
(* Option<T>: None is <<>>, Some(v) is <<v>>.                              *)

None == <<>>
Some(v) == <<v>>

-----------------------------------------------------------------------------
(* Colour strings and their parsing (Linguist::colors, first pass).        *)

\* A u32 is kept as two 16-bit limbs, n = hi * 65536 + lo, so that the
\* whole range of the type and its overflow are represented.
U32(h, l) == [hi |-> h, lo |-> l]

\* char::to_digit(16): -1 stands for None.
HexVal(ch) ==
    IF IsDigit(ch) THEN Code[ch] - Code["0"]
    ELSE IF Code[ch] \in Code["a"]..Code["f"] THEN Code[ch] - Code["a"] + 10
    ELSE IF Code[ch] \in Code["A"]..Code["F"] THEN Code[ch] - Code["A"] + 10
    ELSE -1

\* acc * 16 + d, the checked_mul and checked_add of the digit loop:
\* None when the result does not fit 32 bits.
checked_shift_add(acc, d) ==
    LET h == acc.hi * 16 + acc.lo \div 4096 IN
    IF h > 65535 THEN None
    ELSE Some(U32(h, (acc.lo % 4096) * 16 + d))

\* The digit loop of u32::from_str_radix.
RECURSIVE ParseDigits(_, _, _)
ParseDigits(s, i, acc) ==
    IF i > Len(s) THEN Some(acc)
    ELSE IF HexVal(s[i]) < 0 THEN None
    ELSE IF checked_shift_add(acc, HexVal(s[i])) = None THEN None
    ELSE ParseDigits(s, i + 1, checked_shift_add(acc, HexVal(s[i]))[1])

\* u32::from_str_radix(s, 16).ok(): empty and a lone sign are errors, a
\* leading "+" is accepted, "-" is not a digit of an unsigned type.
from_str_radix(s) ==
    IF s = <<>> THEN None
    ELSE IF Len(s) = 1 /\ s[1] \in {"+", "-"} THEN None
    ELSE IF s[1] = "+" THEN ParseDigits(s, 2, U32(0, 0))
    ELSE ParseDigits(s, 1, U32(0, 0))

\* A colourless entry given the default colour instead of None.
lang_color_or_default(lang) ==
    IF lang.color = None THEN Some(U32(0, 0))
    ELSE from_str_radix(SubSeq(lang.color[1], 2, Len(lang.color[1])))

\* lang.color.as_ref().and_then(|c| u32::from_str_radix(&c[1..], 16).ok())
\* for a non-empty c: the first byte is dropped whatever it is.
lang_color(lang) ==
    IF lang.color = None THEN None
    ELSE from_str_radix(SubSeq(lang.color[1], 2, Len(lang.color[1])))

\* &c[1..] on an empty string is out of range: colors() panics.
slice_panics(lang) == lang.color # None /\ Len(lang.color[1]) = 0

-----------------------------------------------------------------------------
(* Deserialize for Linguist.                                               *)

EmptyMap == <<>>

\* HashMap::insert: a later value for the same key replaces the earlier.
insert(m, k, v) ==
    IF k \in DOMAIN m THEN [m EXCEPT ![k] = v] ELSE m @@ (k :> v)

\* The orders in which a hash map holding the keys S may be iterated.
Orders(S) ==
    {o \in [1..Cardinality(S) -> S] : \A x \in S : \E i \in DOMAIN o : o[i] = x}

\* map.into_iter().map(|(k, v)| (k.to_ascii_lowercase(), v)).collect()
RECURSIVE collect_lowercase(_, _, _, _)
collect_lowercase(src, order, i, acc) ==
    IF i > Len(order) THEN acc
    ELSE collect_lowercase(src, order, i + 1,
            insert(acc, to_ascii_lowercase(order[i]), src[order[i]]))

deserialize(src, order) == collect_lowercase(src, order, 1, EmptyMap)

-----------------------------------------------------------------------------
(* Linguist::colors.                                                       *)

\* The first pass: one Option<u32> per entry, in iteration order.
colors_vec(m, order) == [i \in 1..Len(order) |-> lang_color(m[order[i]])]

\* once(name).chain(aliases).chain(extensions)
keywords(name, lang) == <<name>> \o lang.aliases \o lang.extensions

\* map.entry(word).or_default().push((name, color))
push(mp, word, pair) ==
    IF word \in DOMAIN mp THEN [mp EXCEPT ![word] = Append(@, pair)]
    ELSE mp @@ (word :> <<pair>>)

RECURSIVE push_words(_, _, _, _)
push_words(mp, ws, i, pair) ==
    IF i > Len(ws) THEN mp
    ELSE push_words(push(mp, ws[i], pair), ws, i + 1, pair)

RECURSIVE push_keywords(_, _, _, _)
push_keywords(mp, kws, i, pair) ==
    IF i > Len(kws) THEN mp
    ELSE push_keywords(push_words(mp, tokenize(kws[i]), 1, pair), kws, i + 1, pair)

\* The for_each over self.0.iter().enumerate(): colourless entries return
\* early, the others are pushed under every token of every keyword.
RECURSIVE index_entries(_, _, _, _, _)
index_entries(m, order, cs, idx, mp) ==
    IF idx > Len(order) THEN mp
    ELSE IF cs[idx] = None
         THEN index_entries(m, order, cs, idx + 1, mp)
    ELSE index_entries(m, order, cs, idx + 1,
            push_keywords(mp, keywords(order[idx], m[order[idx]]), 1,
                          <<order[idx], cs[idx][1]>>))

\* The index colors() returns when it returns; it never returns Err.
build_index(m, order) == index_entries(m, order, colors_vec(m, order), 1, EmptyMap)

colors_panics(m) == \E n \in DOMAIN m : slice_panics(m[n])

-----------------------------------------------------------------------------
(* ColorMap::query.                                                        *)

\* Color::from_num: a number above 0xFFFFFF is an error.
from_num(n) ==
    IF n.hi > 255 THEN None
    ELSE Some(<<n.hi, n.lo \div 256, n.lo % 256>>)

\* tokens.flat_map(|word| self.0.get(word)).flatten()
RECURSIVE lookup(_, _, _)
lookup(mp, ws, i) ==
    IF i > Len(ws) THEN <<>>
    ELSE (IF ws[i] \in DOMAIN mp THEN mp[ws[i]] ELSE <<>>) \o lookup(mp, ws, i + 1)

\* BTreeMap::insert on a map kept as a list sorted by key.
RECURSIVE btree_insert(_, _, _)
btree_insert(bt, k, v) ==
    IF bt = <<>> THEN <<<<k, v>>>>
    ELSE IF Head(bt)[1] = k THEN <<<<k, v>>>> \o Tail(bt)
    ELSE IF StrLess(k, Head(bt)[1]) THEN <<<<k, v>>>> \o bt
    ELSE <<Head(bt)>> \o btree_insert(Tail(bt), k, v)

\* A Vec in place of the BTreeMap: pairs kept as they come.
collect_vec(pairs, i, acc) ==
    [j \in 1..Len(pairs) |-> <<pairs[j][1], from_num(pairs[j][2])[1]>>]

\* .map(|(name, color)| (name, TermColor::from(...unwrap()))).collect()
RECURSIVE collect_btree(_, _, _)
collect_btree(pairs, i, acc) ==
    IF i > Len(pairs) THEN acc
    ELSE collect_btree(pairs, i + 1,
            btree_insert(acc, pairs[i][1], from_num(pairs[i][2])[1]))

Panicked == [panicked |-> TRUE, entries |-> <<>>]
Returned(bt) == [panicked |-> FALSE, entries |-> bt]

\* ColorMap::query: the unwrap panics on the first pair whose colour
\* from_num rejects.
run_query(mp, q) ==
    LET pairs == lookup(mp, tokenize(q), 1) IN
    IF \E i \in DOMAIN pairs : from_num(pairs[i][2]) = None
    THEN Panicked
    ELSE Returned(collect_btree(pairs, 1, <<>>))

-----------------------------------------------------------------------------
(* The datasets, queries and texts the model draws from.                   *)

Rust == <<"R", "u", "s", "t">>
RUST == <<"R", "U", "S", "T">>
rust == <<"r", "u", "s", "t">>
Cpp == <<"C", "+", "+">>
cpp == <<"c", "+", "+">>
Marks == <<"?", "!">>
rs == <<"r", "s">>
dot_rs == <<".", "r", "s">>
dot_cpp == <<".", "c", "p", "p">>

\* Raw keys of the dataset: Rust and RUST fold to the same name, and
\* Marks holds no token.
KeyPool == {Rust, RUST, Cpp, Marks}

LinguistLang(c, a, e) == [color |-> c, aliases |-> a, extensions |-> e]

LangPool ==
    { LinguistLang(Some(<<"#", "d", "e", "a", "5", "8", "4">>), <<rs>>, <<dot_rs>>),
      LinguistLang(Some(<<"#", "f", "3", "4", "b", "7", "d">>), <<cpp>>, <<dot_cpp, dot_rs>>),
      LinguistLang(None, <<rs>>, <<dot_cpp>>),
      LinguistLang(Some(<<"#", "g", "g">>), <<>>, <<dot_rs>>),
      LinguistLang(Some(<<"#", "1", "0", "0", "0", "0", "0", "0">>), <<>>, <<dot_cpp>>),
      LinguistLang(Some(<<>>), <<>>, <<>>) }

Datasets ==
    UNION {[K -> LangPool] :
             K \in {K \in SUBSET KeyPool : Cardinality(K) <= MaxEntries}}

Queries ==
    { rust, RUST, Rust, cpp, Cpp, rs, dot_cpp, Marks, <<>>,
      <<"r", "u", "s", "t", " ", "c", "+", "+">>,
      <<"r", "s", "/", "r", "u", "s", "t">>,
      <<"z", "i", "g">> }

-----------------------------------------------------------------------------
(* The index machine: load the dataset, build the index, query it.         *)

NoResult == [panicked |-> FALSE, entries |-> <<>>]

Init ==
    /\ pc = "raw"
    /\ raw \in Datasets
    /\ linguist = EmptyMap
    /\ visit = <<>>
    /\ map = EmptyMap
    /\ query = <<>>
    /\ found = NoResult
    /\ text = <<>>
    /\ words = <<>>
    /\ color = <<0, 0, 0>>
    /\ choices = <<>>
    /\ nearest = None
    /\ held = 0
    /\ cursor = 0

\* Deserialize for Linguist: the raw map is drained in some order.
Deserialize ==
    /\ pc = "raw"
    /\ \E order \in Orders(DOMAIN raw) :
          linguist' = deserialize(raw, order)
    /\ pc' = "loaded"
    /\ UNCHANGED <<raw, visit, map, query, found, text, words, color, choices, nearest,
                   held, cursor>>

\* Linguist::colors returning its index.
Colors ==
    /\ pc = "loaded"
    /\ ~colors_panics(linguist)
    /\ \E order \in Orders(DOMAIN linguist) :
          /\ visit' = order
          /\ map' = build_index(linguist, order)
    /\ pc' = "indexed"
    /\ UNCHANGED <<raw, linguist, query, found, text, words, color, choices, nearest,
                   held, cursor>>

\* Linguist::colors panicking on the slice of an empty colour string.
ColorsPanic ==
    /\ pc = "loaded"
    /\ colors_panics(linguist)
    /\ pc' = "build_panicked"
    /\ UNCHANGED <<raw, linguist, visit, map, query, found, text, words, color,
                   choices, nearest, held, cursor>>

\* ColorMap::query on the built index.
Query ==
    /\ pc \in {"indexed", "queried"}
    /\ \E q \in Queries :
          /\ query' = q
          /\ found' = run_query(map, q)
    /\ pc' = "queried"
    /\ UNCHANGED <<raw, linguist, visit, map, text, words, color, choices, nearest,
                   held, cursor>>

Next == Deserialize \/ Colors \/ ColorsPanic \/ Query

Spec == Init /\ [][Next]_vars

-----------------------------------------------------------------------------
(* The tokenizer machine: tokenize applied to a text.                      *)

TextAlphabet == {"a", "B", "7", "-", "+", " ", "/"}

foo_bar == <<"f", "o", "o", " ", "b", "a", "r">>
foo_slash_bar == <<"f", "o", "o", "/", "b", "a", "r">>
objective_c == <<"o", "b", "j", "e", "c", "t", "i", "v", "e", "-", "c">>

Texts ==
    UNION {[1..n -> TextAlphabet] : n \in 0..MaxLen}
      \cup {foo_bar, foo_slash_bar, objective_c, Cpp}

InitTokenize ==
    /\ pc = "text"
    /\ text \in Texts
    /\ words = <<>>
    /\ raw = EmptyMap
    /\ linguist = EmptyMap
    /\ visit = <<>>
    /\ map = EmptyMap
    /\ query = <<>>
    /\ found = NoResult
    /\ color = <<0, 0, 0>>
    /\ choices = <<>>
    /\ nearest = None
    /\ held = 0
    /\ cursor = 0

Tokenize ==
    /\ pc = "text"
    /\ words' = tokenize(text)
    /\ pc' = "tokenized"
    /\ UNCHANGED <<raw, linguist, visit, map, query, found, text, color, choices, nearest,
                   held, cursor>>

NextTokenize == Tokenize

SpecTokenize == InitTokenize /\ [][NextTokenize]_vars

-----------------------------------------------------------------------------
(* find_nearest_color and the xterm palette.                               *)

\* A u32 literal as its two limbs.
lit(n) == U32(n \div 65536, n % 65536)

XTERM_U32 ==
    << 
       \h000000, \h800000, \h008000, \h808000, \h000080, \h800080, \h008080, \hc0c0c0, \h808080,
       \hff0000, \h00ff00, \hffff00, \h0000ff, \hff00ff, \h00ffff, \hffffff, \h000000, \h00005f,
       \h000087, \h0000af, \h0000d7, \h0000ff, \h005f00, \h005f5f, \h005f87, \h005faf, \h005fd7,
       \h005fff, \h008700, \h00875f, \h008787, \h0087af, \h0087d7, \h0087ff, \h00af00, \h00af5f,
       \h00af87, \h00afaf, \h00afd7, \h00afff, \h00d700, \h00d75f, \h00d787, \h00d7af, \h00d7d7,
       \h00d7ff, \h00ff00, \h00ff5f, \h00ff87, \h00ffaf, \h00ffd7, \h00ffff, \h5f0000, \h5f005f,
       \h5f0087, \h5f00af, \h5f00d7, \h5f00ff, \h5f5f00, \h5f5f5f, \h5f5f87, \h5f5faf, \h5f5fd7,
       \h5f5fff, \h5f8700, \h5f875f, \h5f8787, \h5f87af, \h5f87d7, \h5f87ff, \h5faf00, \h5faf5f,
       \h5faf87, \h5fafaf, \h5fafd7, \h5fafff, \h5fd700, \h5fd75f, \h5fd787, \h5fd7af, \h5fd7d7,
       \h5fd7ff, \h5fff00, \h5fff5f, \h5fff87, \h5fffaf, \h5fffd7, \h5fffff, \h870000, \h87005f,
       \h870087, \h8700af, \h8700d7, \h8700ff, \h875f00, \h875f5f, \h875f87, \h875faf, \h875fd7,
       \h875fff, \h878700, \h87875f, \h878787, \h8787af, \h8787d7, \h8787ff, \h87af00, \h87af5f,
       \h87af87, \h87afaf, \h87afd7, \h87afff, \h87d700, \h87d75f, \h87d787, \h87d7af, \h87d7d7,
       \h87d7ff, \h87ff00, \h87ff5f, \h87ff87, \h87ffaf, \h87ffd7, \h87ffff, \haf0000, \haf005f,
       \haf0087, \haf00af, \haf00d7, \haf00ff, \haf5f00, \haf5f5f, \haf5f87, \haf5faf, \haf5fd7,
       \haf5fff, \haf8700, \haf875f, \haf8787, \haf87af, \haf87d7, \haf87ff, \hafaf00, \hafaf5f,
       \hafaf87, \hafafaf, \hafafd7, \hafafff, \hafd700, \hafd75f, \hafd787, \hafd7af, \hafd7d7,
       \hafd7ff, \hafff00, \hafff5f, \hafff87, \hafffaf, \hafffd7, \hafffff, \hd70000, \hd7005f,
       \hd70087, \hd700af, \hd700d7, \hd700ff, \hd75f00, \hd75f5f, \hd75f87, \hd75faf, \hd75fd7,
       \hd75fff, \hd78700, \hd7875f, \hd78787, \hd787af, \hd787d7, \hd787ff, \hd7af00, \hd7af5f,
       \hd7af87, \hd7afaf, \hd7afd7, \hd7afff, \hd7d700, \hd7d75f, \hd7d787, \hd7d7af, \hd7d7d7,
       \hd7d7ff, \hd7ff00, \hd7ff5f, \hd7ff87, \hd7ffaf, \hd7ffd7, \hd7ffff, \hff0000, \hff005f,
       \hff0087, \hff00af, \hff00d7, \hff00ff, \hff5f00, \hff5f5f, \hff5f87, \hff5faf, \hff5fd7,
       \hff5fff, \hff8700, \hff875f, \hff8787, \hff87af, \hff87d7, \hff87ff, \hffaf00, \hffaf5f,
       \hffaf87, \hffafaf, \hffafd7, \hffafff, \hffd700, \hffd75f, \hffd787, \hffd7af, \hffd7d7,
       \hffd7ff, \hffff00, \hffff5f, \hffff87, \hffffaf, \hffffd7, \hffffff, \h080808, \h121212,
       \h1c1c1c, \h262626, \h303030, \h3a3a3a, \h444444, \h4e4e4e, \h585858, \h626262, \h6c6c6c,
       \h767676, \h808080, \h8a8a8a, \h949494, \h9e9e9e, \ha8a8a8, \hb2b2b2, \hbcbcbc, \hc6c6c6,
       \hd0d0d0, \hdadada, \he4e4e4, \heeeeee >>

\* XTERM_COLORS: every table entry through Color::from_num(..).unwrap()
XTERM_COLORS == [i \in 1..Len(XTERM_U32) |-> from_num(lit(XTERM_U32[i]))[1]]

\* color_art::distance_with in ColorSpace::RGB: the Euclidean distance of
\* the channels. The model keeps its square, which orders and ties exactly
\* as the root does on these integers.
distance_with(c1, c2) ==
    (c1[1] - c2[1]) * (c1[1] - c2[1])
      + (c1[2] - c2[2]) * (c1[2] - c2[2])
      + (c1[3] - c2[3]) * (c1[3] - c2[3])

\* The fold step taking the later element on a tie.
min_by_step_last(cs, c, h, i) ==
    IF distance_with(cs[h], c) >= distance_with(cs[i], c) THEN i ELSE h

\* One step of Iterator::min_by over the enumerated distances: the held
\* element is replaced only when the comparison says Greater, so the first
\* of several minima is kept. h and i are positions in cs.
min_by_step(cs, c, h, i) ==
    IF distance_with(cs[h], c) > distance_with(cs[i], c) THEN i ELSE h

\* The index reported counted from one.
nearest_result_from_one(cs, h) == Some(<<h, cs[h]>>)

\* .map(|(i, (c, _))| (i, c)): the enumerate() index, from zero, and the
\* colour of the minimum.
nearest_result(cs, h) == Some(<<h - 1, cs[h]>>)

SampleColors == {<<0, 0, 0>>, <<1, 0, 0>>, <<2, 0, 0>>, <<0, 1, 0>>}

Palettes == UNION {[1..n -> SampleColors] : n \in 0..MaxPalette}

InitNearest ==
    /\ pc = "color"
    /\ \/ /\ choices \in Palettes
          /\ color \in SampleColors
       \/ /\ choices = XTERM_COLORS
          /\ color \in {XTERM_COLORS[i] : i \in DOMAIN XTERM_COLORS} \cup SampleColors
    /\ nearest = None
    /\ held = 0
    /\ cursor = 0
    /\ raw = EmptyMap
    /\ linguist = EmptyMap
    /\ visit = <<>>
    /\ map = EmptyMap
    /\ query = <<>>
    /\ found = NoResult
    /\ text = <<>>
    /\ words = <<>>

\* find_nearest_color over no choices: min_by of an empty iterator.
NearestOfNone ==
    /\ pc = "color"
    /\ choices = <<>>
    /\ nearest' = None
    /\ pc' = "nearest"
    /\ UNCHANGED <<raw, linguist, visit, map, query, found, text, words, color,
                   choices, held, cursor>>

\* The first element becomes the held minimum.
ScanFirst ==
    /\ pc = "color"
    /\ choices # <<>>
    /\ held' = 1
    /\ cursor' = 2
    /\ pc' = "scan"
    /\ UNCHANGED <<raw, linguist, visit, map, query, found, text, words, color,
                   choices, nearest>>

ScanNext ==
    /\ pc = "scan"
    /\ cursor <= Len(choices)
    /\ held' = min_by_step(choices, color, held, cursor)
    /\ cursor' = cursor + 1
    /\ UNCHANGED <<pc, raw, linguist, visit, map, query, found, text, words, color,
                   choices, nearest>>

ScanDone ==
    /\ pc = "scan"
    /\ cursor > Len(choices)
    /\ nearest' = nearest_result(choices, held)
    /\ pc' = "nearest"
    /\ UNCHANGED <<raw, linguist, visit, map, query, found, text, words, color,
                   choices, held, cursor>>

NextNearest == NearestOfNone \/ ScanFirst \/ ScanNext \/ ScanDone

SpecNearest == InitNearest /\ [][NextNearest]_vars

-----------------------------------------------------------------------------
(* Properties of the tokenizer (checked under SpecTokenize).               *)

\* The allowed class as the claim lists it: letters, digits, + * _ # -
AllowedClass ==
    { "a", "b", "c", "d", "e", "f", "g", "h", "i", "j", "k", "l", "m",
      "n", "o", "p", "q", "r", "s", "t", "u", "v", "w", "x", "y", "z",
      "A", "B", "C", "D", "E", "F", "G", "H", "I", "J", "K", "L", "M",
      "N", "O", "P", "Q", "R", "S", "T", "U", "V", "W", "X", "Y", "Z",
      "0", "1", "2", "3", "4", "5", "6", "7", "8", "9",
      "+", "*", "_", "#", "-" }

\* a..b is a maximal run of allowed characters of t.
IsMaximalRun(t, a, b) ==
    /\ a <= b
    /\ \A i \in a..b : t[i] \in AllowedClass
    /\ a = 1 \/ t[a - 1] \notin AllowedClass
    /\ b = Len(t) \/ t[b + 1] \notin AllowedClass

MaximalRuns(t) ==
    {r \in (1..Len(t)) \X (1..Len(t)) : IsMaximalRun(t, r[1], r[2])}

\* C9: tokenize returns, left to right, exactly the maximal runs of
\* allowed characters, each unchanged (case kept); no token is empty or
\* holds a separator; "foo bar" and "foo/bar" give foo, bar and
\* "objective-c" gives one token.
C9_TokenizerRule ==
    pc = "tokenized" =>
        /\ Len(words) = Cardinality(MaximalRuns(text))
        /\ \A r \in MaximalRuns(text) :
              words[1 + Cardinality({q \in MaximalRuns(text) : q[1] < r[1]})]
                  = SubSeq(text, r[1], r[2])
        /\ \A k \in DOMAIN words :
              words[k] # <<>> /\ \A i \in DOMAIN words[k] : words[k][i] \in AllowedClass
        /\ text \in {foo_bar, foo_slash_bar} =>
              words = << <<"f", "o", "o">>, <<"b", "a", "r">> >>
        /\ text = objective_c => words = <<objective_c>>

\* A text of two runs around a separator, one an upper-case letter and
\* one a "-", has been tokenized into two tokens.
C9_Witness ==
    /\ pc = "tokenized"
    /\ text = <<"B", "/", "-">>
    /\ words = << <<"B">>, <<"-">> >>

-----------------------------------------------------------------------------
(* Properties of find_nearest_color (checked under SpecNearest).           *)

\* The zero-based indexes at which the palette cs holds the colour c.
IndexesOf(cs, c) == {i - 1 : i \in {j \in DOMAIN cs : cs[j] = c}}

Lowest(S) == CHOOSE i \in S : \A j \in S : i <= j

\* C5 as stated: searching the xterm palette for the colour of its entry
\* i returns index i, for every i.
C5_SelfMatchEveryIndex ==
    (pc = "nearest" /\ choices = XTERM_COLORS) =>
        \A i \in IndexesOf(XTERM_COLORS, color) : nearest = Some(<<i, color>>)

\* C5 amended: searching the xterm palette for the colour of its entry i
\* returns, at distance 0, the lowest index holding that colour, which is
\* i unless an earlier entry holds the same colour.
C5_SelfMatchLowestIndex ==
    (pc = "nearest" /\ choices = XTERM_COLORS
        /\ IndexesOf(XTERM_COLORS, color) # {}) =>
        /\ nearest = Some(<<Lowest(IndexesOf(XTERM_COLORS, color)), color>>)
        /\ distance_with(nearest[1][2], color) = 0

\* The search for 0x5f87af, held once by the palette, has returned 67; and
\* the palette holds black at 0 and at 16.
C5_Witness ==
    /\ pc = "nearest"
    /\ choices = XTERM_COLORS
    /\ color = <<95, 135, 175>>
    /\ nearest = Some(<<67, color>>)
    /\ IndexesOf(XTERM_COLORS, <<0, 0, 0>>) = {0, 16}

\* C6: the index returned has no entry strictly nearer, and no entry of a
\* lower index equally near.
C6_FirstMinimum ==
    (pc = "nearest" /\ choices # <<>>) =>
        /\ nearest # None
        /\ nearest[1][1] + 1 \in DOMAIN choices
        /\ nearest[1][2] = choices[nearest[1][1] + 1]
        /\ \A j \in DOMAIN choices :
              distance_with(choices[j], color) >= distance_with(nearest[1][2], color)
        /\ \A j \in 1..nearest[1][1] :
              distance_with(choices[j], color) > distance_with(nearest[1][2], color)

\* Two different entries after the first were equally near and nearest,
\* and the one of the lower index was returned.
C6_Witness ==
    /\ pc = "nearest"
    /\ nearest # None
    /\ nearest[1][1] >= 1
    /\ \E j \in DOMAIN choices :
          /\ j > nearest[1][1] + 1
          /\ choices[j] # nearest[1][2]
          /\ distance_with(choices[j], color) = distance_with(nearest[1][2], color)

-----------------------------------------------------------------------------
(* Properties of the index and of query (checked under Spec).              *)

Built == pc \in {"indexed", "queried"}

\* The names a query result holds, and the pairs of every bucket.
NamesOf(r) == {r.entries[i][1] : i \in DOMAIN r.entries}

BucketPairs(mp) == UNION {{mp[w][i] : i \in DOMAIN mp[w]} : w \in DOMAIN mp}

\* C1: with "Rust" a coloured key of the dataset, the queries "RUST" and
\* "rust" give identical results.
C1_CaseInsensitive ==
    (Built /\ Rust \in DOMAIN raw /\ raw[Rust].color # None) =>
        run_query(map, RUST) = run_query(map, rust)

\* C2: for every entry that has a colour, the query by its exact name
\* returns a result holding that name with that entry's colour.
C2_RoundTrip ==
    Built =>
        \A n \in DOMAIN linguist :
            linguist[n].color # None =>
                /\ ~run_query(map, n).panicked
                /\ lang_color(linguist[n]) # None
                /\ \E i \in DOMAIN run_query(map, n).entries :
                      run_query(map, n).entries[i]
                          = <<n, from_num(lang_color(linguist[n])[1])[1]>>

\* A colour string of the form #RRGGBB.
IsHexColor(c) ==
    /\ Len(c) = 7
    /\ c[1] = "#"
    /\ \A i \in 2..7 : HexVal(c[i]) >= 0

\* C3: when an entry carries a colour string that is not valid hex, no
\* index is produced.
C3_MalformedColorIsFatal ==
    (\E n \in DOMAIN linguist :
        linguist[n].color # None /\ ~IsHexColor(linguist[n].color[1]))
    => ~Built

\* The pairs in the buckets of the tokens of q.
Matched(mp, q) ==
    UNION {{mp[w][i] : i \in DOMAIN mp[w]} :
             w \in {t \in DOMAIN mp : \E k \in DOMAIN tokenize(q) : tokenize(q)[k] = t}}

\* r holds exactly the names matched by some token of q, once each, in
\* ascending order, each with a colour stored with it.
IsUnionByName(r, mp, q) ==
    /\ NamesOf(r) = {p[1] : p \in Matched(mp, q)}
    /\ \A i \in DOMAIN r.entries : \A j \in DOMAIN r.entries :
          i < j => StrLess(r.entries[i][1], r.entries[j][1])
    /\ \A i \in DOMAIN r.entries :
          \E p \in Matched(mp, q) :
              p[1] = r.entries[i][1] /\ from_num(p[2]) = Some(r.entries[i][2])

\* C4: for any index and any query text, query returns the union over
\* the tokens, keyed and ordered by name.
C4_UnionOrderedByName ==
    pc = "queried" => ~found.panicked /\ IsUnionByName(found, map, query)

\* What C4 says of the queries that return: the result is the union.
ReturnedResultIsUnion ==
    (pc = "queried" /\ ~found.panicked) => IsUnionByName(found, map, query)

Coloured(m) ==
    [n \in {k \in DOMAIN m : m[k].color # None} |-> m[n]]

\* C8: an entry with no colour puts no pair into any bucket, no query
\* returns its name, and the buckets are those the other entries give.
C8_ColourlessInvisible ==
    pc = "indexed" =>
        /\ \A n \in DOMAIN linguist :
              linguist[n].color = None =>
                  /\ \A p \in BucketPairs(map) : p[1] # n
                  /\ \A q \in Queries \cup {n} : n \notin NamesOf(run_query(map, q))
        /\ map = build_index(Coloured(linguist),
                             SelectSeq(visit, LAMBDA n : linguist[n].color # None))

\* A colourless entry with an alias and an extension sits beside an
\* indexed one, and a query by its alias has returned the other entry.
C8_Witness ==
    /\ pc = "queried"
    /\ \E n \in DOMAIN linguist :
          /\ linguist[n].color = None
          /\ linguist[n].aliases # <<>>
          /\ query = linguist[n].aliases[1]
    /\ found.entries # <<>>

\* C10: every colour stored in a built index is at most 0xFFFFFF, and no
\* query aborts.
C10_QueryNeverFails ==
    Built =>
        /\ \A p \in BucketPairs(map) : p[2].hi <= 255
        /\ ~found.panicked

=============================================================================
